---- MODULE Spec2Model ----
(***************************************************************************)
(* Raw-data validation layer of if_recomender: the quote classifier and    *)
(* the repair engine of validation/raw/data_validator.py, with the backup  *)
(* primitives of utils.py and the pipeline hook of hooks.py.               *)
(*                                                                         *)
(* A text is a sequence of one-character strings, as Python sees the file  *)
(* after read_text.  Operators carry the names of the methods they model.  *)
(* An I/O primitive that raises leaves the file system as it found it,     *)
(* except write_text, which has truncated the file when it raises.         *)
(***************************************************************************)
EXTENDS Integers, Sequences, FiniteSets, TLC

VARIABLES
    file,        \* text of the raw CSV file on disk
    backup,      \* text of today's backup of the file, or NoFile
    pc,          \* position of validate_and_fix: "idle", "loop", "returned", "raised"
    validations, \* the mapping validate_and_fix was called with, in declaration order
    idx,         \* the entry of the mapping the loop is at
    results,     \* the list validate_and_fix builds and returns
    obs,         \* history: what happened in the cycle behind each record of results
    last,        \* history: the last repair call (_run_fix, _run_ignore or a bare fix method)
    firstPre,    \* history: text of the file before the first repair of the day, or NoFile
    copies,      \* history: how often backup_file copied the file today
    backupCalls, \* history: how often backup_file returned a path today
    calls        \* history: how often validate_and_fix was called

vars == <<file, backup, pc, validations, idx, results, obs, last,
          firstPre, copies, backupCalls, calls>>

----------------------------------------------------------------------------
(* Bounds of the model *)

MaxLines == 3
MaxLen == 3
MaxChecks == 2
MaxCount == 2
MaxCalls == 1
MaxText == 4
MaxRuns == 3
MaxResults == 2

----------------------------------------------------------------------------
(* Characters and texts *)

QUOTE == "\""
SEP == ";"
NL == "\n"
SPACE == " "
Alphabet == {"a", QUOTE, SEP, SPACE}

NoFile == "no file"

SeqsUpTo(S, n) == UNION {[1..k -> S] : k \in 0..n}

Min(a, b) == IF a < b THEN a ELSE b

\* str.count
count(s, c) == Cardinality({i \in DOMAIN s : s[i] = c})

\* c in s
contains(s, c) == \E i \in DOMAIN s : s[i] = c

\* str.split(c): always at least one part
RECURSIVE split(_, _)
split(s, c) ==
    IF ~contains(s, c) THEN <<s>>
    ELSE LET i == CHOOSE i \in DOMAIN s : s[i] = c /\ \A j \in 1..(i - 1) : s[j] # c
         IN <<SubSeq(s, 1, i - 1)>> \o split(SubSeq(s, i + 1, Len(s)), c)

\* c.join(parts)
RECURSIVE join(_, _)
join(c, parts) ==
    IF parts = <<>> THEN <<>>
    ELSE IF Len(parts) = 1 THEN parts[1]
    ELSE parts[1] \o <<c>> \o join(c, Tail(parts))

\* field.replace('""', ""): pairs removed left to right, not overlapping
\* the escaped pairs left in: the quotes counted raw
replace_pairs_not_applied(field) == field

RECURSIVE replace_pairs(_)
replace_pairs(field) ==
    IF field = <<>> THEN <<>>
    ELSE IF Len(field) >= 2 /\ field[1] = QUOTE /\ field[2] = QUOTE
         THEN replace_pairs(SubSeq(field, 3, Len(field)))
    ELSE <<field[1]>> \o replace_pairs(Tail(field))

\* not line.strip()
blank(line) == \A i \in DOMAIN line : line[i] = SPACE

\* the ascending list of the numbers of S
RECURSIVE sorted(_)
sorted(S) ==
    IF S = {} THEN <<>>
    ELSE LET m == CHOOSE m \in S : \A n \in S : m <= n
         IN <<m>> \o sorted(S \ {m})

\* sum(1 for _ in f): the lines a text file iterates over
line_count(text) ==
    count(text, NL) + (IF text # <<>> /\ text[Len(text)] # NL THEN 1 ELSE 0)

----------------------------------------------------------------------------
(* Quote Integrity Classifier *)

unescaped_count(field) == count(replace_pairs(field), QUOTE)

\* the quotes counted over the whole line instead of field by field
_line_has_odd_quotes_in_total(line) == count(replace_pairs(line), QUOTE) % 2 = 1

_line_has_odd_quotes(line) ==
    IF ~contains(line, QUOTE) THEN FALSE
    ELSE LET fields == split(line, SEP)
         IN \E k \in DOMAIN fields : unescaped_count(fields[k]) % 2 = 1

_line_has_even_quotes(line) ==
    IF ~contains(line, QUOTE) THEN FALSE
    ELSE LET fields == split(line, SEP)
         IN \E k \in DOMAIN fields :
                unescaped_count(fields[k]) > 0 /\ unescaped_count(fields[k]) % 2 = 0

ValidationResult(name, status, strategy, details, affected, fixes) ==
    [validation_name |-> name, status |-> status, strategy_applied |-> strategy,
     details |-> details, affected_lines |-> affected, fixes_applied |-> fixes]

\* the line numbers a check collects: header and blank lines skipped
affected_by_odd(text) ==
    LET lines == split(text, NL)
    IN sorted({n \in DOMAIN lines :
                  n # 1 /\ ~blank(lines[n]) /\ _line_has_odd_quotes(lines[n])})

affected_by_even(text) ==
    LET lines == split(text, NL)
    IN sorted({n \in DOMAIN lines :
                  n # 1 /\ ~blank(lines[n]) /\ _line_has_even_quotes(lines[n])})

_check_redundant_quotes(text, readable) ==
    IF ~readable
    THEN ValidationResult("check_redundant_quotes", "failed", "ignore",
                          "Error reading file", <<>>, 0)
    ELSE IF affected_by_odd(text) # <<>>
    THEN ValidationResult("check_redundant_quotes", "failed", "ignore",
                          "Found lines with redundant (odd) quotes",
                          affected_by_odd(text), 0)
    ELSE ValidationResult("check_redundant_quotes", "passed", "ignore",
                          "No redundant quotes detected", <<>>, 0)

_check_malformed_quotes(text, readable) ==
    IF ~readable
    THEN ValidationResult("check_malformed_quotes", "failed", "ignore",
                          "Error reading file", <<>>, 0)
    ELSE IF affected_by_even(text) # <<>>
    THEN ValidationResult("check_malformed_quotes", "failed", "ignore",
                          "Found lines with malformed (even) quotes",
                          affected_by_even(text), 0)
    ELSE ValidationResult("check_malformed_quotes", "passed", "ignore",
                          "No malformed quotes detected", <<>>, 0)

----------------------------------------------------------------------------
(* Repair Engine: the field and line transforms *)

RECURSIVE _remove_every_quote(_)

\* every quote character removed, those of the escaped pairs too
_remove_every_quote(field) ==
    IF field = <<>> THEN <<>>
    ELSE (IF field[1] = QUOTE THEN <<>> ELSE <<field[1]>>)
         \o _remove_every_quote(Tail(field))

RECURSIVE _remove_unescaped_quotes(_)
_remove_unescaped_quotes(field) ==
    IF field = <<>> THEN <<>>
    ELSE IF field[1] = QUOTE
         THEN IF Len(field) >= 2 /\ field[2] = QUOTE
              THEN <<QUOTE, QUOTE>> \o _remove_unescaped_quotes(SubSeq(field, 3, Len(field)))
              ELSE _remove_unescaped_quotes(Tail(field))
    ELSE <<field[1]>> \o _remove_unescaped_quotes(Tail(field))

RECURSIVE _double_every_quote(_)

\* every quote character doubled, those of the escaped pairs too
_double_every_quote(field) ==
    IF field = <<>> THEN <<>>
    ELSE (IF field[1] = QUOTE THEN <<QUOTE, QUOTE>> ELSE <<field[1]>>)
         \o _double_every_quote(Tail(field))

RECURSIVE _double_unescaped_quotes(_)

_double_unescaped_quotes(field) ==
    IF field = <<>> THEN <<>>
    ELSE IF field[1] = QUOTE
         THEN IF Len(field) >= 2 /\ field[2] = QUOTE
              THEN <<QUOTE, QUOTE>> \o _double_unescaped_quotes(SubSeq(field, 3, Len(field)))
              ELSE <<QUOTE, QUOTE>> \o _double_unescaped_quotes(Tail(field))
    ELSE <<field[1]>> \o _double_unescaped_quotes(Tail(field))

\* the unescaped quotes stripped from every field that has some, odd or even
_remove_quotes_of_any_parity(line) ==
    IF ~contains(line, QUOTE) THEN line
    ELSE LET fields == split(line, SEP)
         IN join(SEP, [k \in DOMAIN fields |->
                IF unescaped_count(fields[k]) > 0
                THEN _remove_unescaped_quotes(fields[k])
                ELSE fields[k]])

_remove_odd_quotes_from_line(line) ==
    IF ~contains(line, QUOTE) THEN line
    ELSE LET fields == split(line, SEP)
             fixed_fields == [k \in DOMAIN fields |->
                 IF unescaped_count(fields[k]) % 2 = 1
                 THEN _remove_unescaped_quotes(fields[k])
                 ELSE fields[k]]
         IN join(SEP, fixed_fields)

\* only the first field of the line looked at
_double_even_quotes_in_first_field(line) ==
    IF ~contains(line, QUOTE) THEN line
    ELSE LET fields == split(line, SEP)
             fixed_fields == [k \in DOMAIN fields |->
                 IF k = 1 /\ unescaped_count(fields[k]) > 0
                          /\ unescaped_count(fields[k]) % 2 = 0
                 THEN _double_unescaped_quotes(fields[k])
                 ELSE fields[k]]
         IN join(SEP, fixed_fields)

\* every field with an unescaped quote doubled, whatever the parity
_double_quotes_of_any_parity(line) ==
    IF ~contains(line, QUOTE) THEN line
    ELSE LET fields == split(line, SEP)
             fixed_fields == [k \in DOMAIN fields |->
                 IF unescaped_count(fields[k]) > 0
                 THEN _double_unescaped_quotes(fields[k])
                 ELSE fields[k]]
         IN join(SEP, fixed_fields)

_double_even_quotes_in_line(line) ==
    IF ~contains(line, QUOTE) THEN line
    ELSE LET fields == split(line, SEP)
             fixed_fields == [k \in DOMAIN fields |->
                 IF unescaped_count(fields[k]) > 0 /\ unescaped_count(fields[k]) % 2 = 0
                 THEN _double_unescaped_quotes(fields[k])
                 ELSE fields[k]]
         IN join(SEP, fixed_fields)

FixResult(name, fixed, removed, success, details) ==
    [fix_name |-> name, lines_fixed |-> fixed, lines_removed |-> removed,
     success |-> success, details |-> details]

----------------------------------------------------------------------------
(* Repair Engine: the fix methods on a whole file.  Each returns the text *)
(* now on disk and its FixResult; ok = FALSE is an exception inside its try *)

\* the loop over the lines stopping one line short
_fix_redundant_quotes_but_last(text, ok) ==
    IF ~ok
    THEN [file |-> text,
          result |-> FixResult("fix_redundant_quotes", 0, <<>>, FALSE, "Error fixing file")]
    ELSE LET lines == split(text, NL)
             modified_lines == [n \in DOMAIN lines |->
                 IF n = 1 \/ n = Len(lines) \/ blank(lines[n]) THEN lines[n]
                 ELSE _remove_odd_quotes_from_line(lines[n])]
             modified_line_numbers ==
                 sorted({n \in DOMAIN lines : modified_lines[n] # lines[n]})
         IN [file |-> join(NL, modified_lines),
             result |-> FixResult("fix_redundant_quotes", Len(modified_line_numbers),
                                  modified_line_numbers, TRUE, "Removed redundant quotes")]

\* the header repaired like a data line
_fix_redundant_quotes_header_too(text, ok) ==
    IF ~ok
    THEN [file |-> text,
          result |-> FixResult("fix_redundant_quotes", 0, <<>>, FALSE, "Error fixing file")]
    ELSE LET lines == split(text, NL)
             modified_lines == [n \in DOMAIN lines |->
                 IF blank(lines[n]) THEN lines[n]
                 ELSE _remove_odd_quotes_from_line(lines[n])]
             modified_line_numbers ==
                 sorted({n \in DOMAIN lines : modified_lines[n] # lines[n]})
         IN [file |-> join(NL, modified_lines),
             result |-> FixResult("fix_redundant_quotes", Len(modified_line_numbers),
                                  modified_line_numbers, TRUE, "Removed redundant quotes")]

_fix_redundant_quotes(text, ok) ==
    IF ~ok
    THEN [file |-> text,
          result |-> FixResult("fix_redundant_quotes", 0, <<>>, FALSE, "Error fixing file")]
    ELSE LET lines == split(text, NL)
             modified_lines == [n \in DOMAIN lines |->
                 IF n = 1 \/ blank(lines[n]) THEN lines[n]
                 ELSE _remove_odd_quotes_from_line(lines[n])]
             modified_line_numbers ==
                 sorted({n \in DOMAIN lines : modified_lines[n] # lines[n]})
         IN [file |-> join(NL, modified_lines),
             result |-> FixResult("fix_redundant_quotes", Len(modified_line_numbers),
                                  modified_line_numbers, TRUE, "Removed redundant quotes")]

_fix_malformed_quotes(text, ok) ==
    IF ~ok
    THEN [file |-> text,
          result |-> FixResult("fix_malformed_quotes", 0, <<>>, FALSE, "Error fixing file")]
    ELSE LET lines == split(text, NL)
             modified_lines == [n \in DOMAIN lines |->
                 IF n = 1 \/ blank(lines[n]) THEN lines[n]
                 ELSE _double_even_quotes_in_line(lines[n])]
             modified_line_numbers ==
                 sorted({n \in DOMAIN lines : modified_lines[n] # lines[n]})
         IN [file |-> join(NL, modified_lines),
             result |-> FixResult("fix_malformed_quotes", Len(modified_line_numbers),
                                  modified_line_numbers, TRUE, "Doubled malformed quotes")]

\* the lines _ignore_affected_lines numbers: the split without its empty last part
ignore_lines(text) ==
    LET lines == split(text, NL)
    IN IF lines[Len(lines)] = <<>> THEN SubSeq(lines, 1, Len(lines) - 1) ELSE lines

\* the numbers of the lines the loop of _ignore_affected_lines appends
ignore_kept(lines, affected) ==
    {n \in DOMAIN lines :
        n = 1 \/ (~blank(lines[n]) /\ ~(\E k \in DOMAIN affected : affected[k] = n))}

\* the lines asked for reported as removed, not the lines the loop removed
_ignore_affected_lines_as_asked(text, affected, ok) ==
    IF affected = <<>>
    THEN [file |-> text,
          result |-> FixResult("ignore_affected_lines", 0, <<>>, TRUE, "No lines to remove")]
    ELSE IF ~ok
    THEN [file |-> text,
          result |-> FixResult("ignore_affected_lines", 0, <<>>, FALSE, "Error removing lines")]
    ELSE LET has_trailing_newline == text # <<>> /\ text[Len(text)] = NL
             lines == ignore_lines(text)
             kept == sorted(ignore_kept(lines, affected))
             filtered_lines == [k \in DOMAIN kept |-> lines[kept[k]]]
             result_content ==
                 join(NL, filtered_lines) \o (IF has_trailing_newline THEN <<NL>> ELSE <<>>)
         IN [file |-> result_content,
             result |-> FixResult("ignore_affected_lines", Len(affected),
                                  affected, TRUE, "Removed lines")]

_ignore_affected_lines(text, affected, ok) ==
    IF affected = <<>>
    THEN [file |-> text,
          result |-> FixResult("ignore_affected_lines", 0, <<>>, TRUE, "No lines to remove")]
    ELSE IF ~ok
    THEN [file |-> text,
          result |-> FixResult("ignore_affected_lines", 0, <<>>, FALSE, "Error removing lines")]
    ELSE LET has_trailing_newline == text # <<>> /\ text[Len(text)] = NL
             lines == ignore_lines(text)
             kept == sorted(ignore_kept(lines, affected))
             filtered_lines == [k \in DOMAIN kept |-> lines[kept[k]]]
             removed_line_numbers ==
                 sorted({n \in DOMAIN lines :
                     n # 1 /\ ~blank(lines[n]) /\ \E k \in DOMAIN affected : affected[k] = n})
             result_content ==
                 join(NL, filtered_lines) \o (IF has_trailing_newline THEN <<NL>> ELSE <<>>)
         IN [file |-> result_content,
             result |-> FixResult("ignore_affected_lines", Len(removed_line_numbers),
                                  removed_line_numbers, TRUE, "Removed lines")]

\* the comparison made with <= : a file of exactly half the lines fails
_validate_fix_sanity_at_half(fixed_text, backup_text, ok) ==
    IF ~ok THEN [ok |-> FALSE, msg |-> "Sanity check failed"]
    ELSE IF 2 * line_count(fixed_text) <= line_count(backup_text)
    THEN [ok |-> FALSE, msg |-> "Too many lines removed"]
    ELSE [ok |-> TRUE, msg |-> "Sanity check passed"]

\* fixed_lines < backup_lines * 0.5, on integers
_validate_fix_sanity(fixed_text, backup_text, ok) ==
    IF ~ok THEN [ok |-> FALSE, msg |-> "Sanity check failed"]
    ELSE IF 2 * line_count(fixed_text) < line_count(backup_text)
    THEN [ok |-> FALSE, msg |-> "Too many lines removed"]
    ELSE [ok |-> TRUE, msg |-> "Sanity check passed"]

----------------------------------------------------------------------------
(* Backup and restore (utils.py).  The backup path of the file lies in the *)
(* directory of today's date; bk is what that path holds, NoFile if nothing. *)
(* No code reads the directory of another day.                              *)

\* the copy made even when today's backup exists
backup_file_overwriting(text, bk, ok) ==
    IF ~ok THEN [raised |-> TRUE, backup |-> bk]
    ELSE [raised |-> FALSE, backup |-> text]

backup_file(text, bk, ok) ==
    IF ~ok THEN [raised |-> TRUE, backup |-> bk]
    ELSE IF bk # NoFile THEN [raised |-> FALSE, backup |-> bk]
    ELSE [raised |-> FALSE, backup |-> text]

restore_file(backup_text, text, ok) ==
    IF ~ok THEN [raised |-> TRUE, file |-> text]
    ELSE [raised |-> FALSE, file |-> backup_text]

----------------------------------------------------------------------------
(* Repair Engine: _run_fix and _run_ignore.  io says which I/O steps of the *)
(* call work: check, recheck, backup, fix, sanity, restore.                 *)

_validation_registry == {"check_redundant_quotes", "check_malformed_quotes"}

_fix_registry == {"check_redundant_quotes", "check_malformed_quotes"}

\* the I/O steps that fail during one call: none, any single one, both reads
\* of the file, or the sanity read together with the restore.  "fix" is the
\* read of the fix method failing, "write" its write_text failing.
FaultSets ==
    {{}, {"check"}, {"recheck"}, {"check", "recheck"}, {"backup"}, {"fix"},
     {"write"}, {"sanity"}, {"restore"}, {"sanity", "restore"}}

IOof(F) ==
    [check |-> "check" \notin F, recheck |-> "recheck" \notin F,
     backup |-> "backup" \notin F, fix |-> "fix" \notin F,
     write |-> "write" \notin F,
     sanity |-> "sanity" \notin F, restore |-> "restore" \notin F]

IO == {IOof(F) : F \in FaultSets}

\* _run_fix on its own does not run the first check, _run_ignore runs none
IOFix == {io \in IO : io.check}

IOIgnore == {io \in IO : io.check /\ io.recheck}

NoResult == [fix_name |-> "none", lines_fixed |-> 0, lines_removed |-> <<>>,
             success |-> FALSE, details |-> "exception"]

\* what a repair call leaves: the file, the backups, the FixResult it returns
\* (raised: an exception left the call instead), and how far it got
Outcome(text, bk, result, raised, affected, backed_up, sanity) ==
    [file |-> text, backup |-> bk, result |-> result, raised |-> raised,
     affected |-> affected, backed_up |-> backed_up, sanity |-> sanity]

_run_check(text, validation_name, readable) ==
    IF validation_name = "check_redundant_quotes"
    THEN _check_redundant_quotes(text, readable)
    ELSE _check_malformed_quotes(text, readable)

\* write_text raised after it opened the file for writing: the file is left
\* empty and the except block of the method returns the failure
failed_write(failure) == [failure EXCEPT !.file = <<>>]

fix_method(text, validation_name, ok) ==
    IF validation_name = "check_redundant_quotes"
    THEN _fix_redundant_quotes(text, ok)
    ELSE _fix_malformed_quotes(text, ok)

\* the early return of _run_fix never taken
fix_always_needed(check_result) == FALSE

\* _run_fix: the re-check found nothing to fix
fix_not_needed(check_result) == Len(check_result.affected_lines) = 0

\* the failed backup logged and the fix method run all the same
fix_backup_failure_ignored(text, bk, validation_name, affected) ==
    Outcome(fix_method(text, validation_name, TRUE).file, bk,
            fix_method(text, validation_name, TRUE).result,
            FALSE, affected, "raised", "not run")

\* _run_fix: backup_file raised
fix_backup_failed(text, bk, validation_name, affected) ==
    Outcome(text, bk,
            FixResult(<<"fix_", validation_name>>, 0, <<>>, FALSE, "Backup failed"),
            FALSE, affected, "raised", "not run")

\* _run_fix: the fix method returned success, the sanity check and the restore
fix_verify(fx, bk, affected, io) ==
    LET sane == _validate_fix_sanity(fx.file, bk, io.sanity)
        rs == restore_file(bk, fx.file, io.restore)
    IN IF sane.ok
       THEN Outcome(fx.file, bk, fx.result, FALSE, affected, "returned", "passed")
       ELSE IF rs.raised
       THEN Outcome(rs.file, bk, NoResult, TRUE, affected, "returned", "failed")
       ELSE Outcome(rs.file, bk,
                    [fx.result EXCEPT !.success = FALSE, !.details = <<"Fix reverted", sane.msg>>],
                    FALSE, affected, "returned", "failed")

_run_fix(text, bkp, validation_name, io) ==
    LET check_result == _run_check(text, validation_name, io.recheck)
        affected == check_result.affected_lines
        bk == backup_file(text, bkp, io.backup)
        fx == IF io.write THEN fix_method(text, validation_name, io.fix)
              ELSE failed_write(fix_method(text, validation_name, FALSE))
    IN IF validation_name \in _validation_registry /\ fix_not_needed(check_result)
       THEN Outcome(text, bkp,
                    FixResult(<<"fix_", validation_name>>, 0, <<>>, TRUE,
                              "No issues found, file not modified"),
                    FALSE, affected, "not called", "not run")
       ELSE IF bk.raised THEN fix_backup_failed(text, bkp, validation_name, affected)
       ELSE IF ~fx.result.success
       THEN Outcome(fx.file, bk.backup, fx.result, FALSE, affected, "returned", "not run")
       ELSE fix_verify(fx, bk.backup, affected, io)

\* _run_ignore: backup_file raised
ignore_backup_failed(text, bk, validation_name, affected) ==
    Outcome(text, bk,
            FixResult(<<"ignore_", validation_name>>, 0, <<>>, FALSE, "Backup failed"),
            FALSE, affected, "raised", "not run")

\* the failed sanity check reported, the file not restored
ignore_verify_without_restore(fx, bk, affected, io) ==
    LET sane == _validate_fix_sanity(fx.file, bk, io.sanity)
    IN IF sane.ok
       THEN Outcome(fx.file, bk, fx.result, FALSE, affected, "returned", "passed")
       ELSE Outcome(fx.file, bk,
                    [fx.result EXCEPT !.success = FALSE, !.details = <<"IGNORE reverted", sane.msg>>],
                    FALSE, affected, "returned", "failed")

\* _run_ignore: the removal returned success, the sanity check and the restore
ignore_verify(fx, bk, affected, io) ==
    LET sane == _validate_fix_sanity(fx.file, bk, io.sanity)
        rs == restore_file(bk, fx.file, io.restore)
    IN IF sane.ok
       THEN Outcome(fx.file, bk, fx.result, FALSE, affected, "returned", "passed")
       ELSE IF rs.raised
       THEN Outcome(rs.file, bk, NoResult, TRUE, affected, "returned", "failed")
       ELSE Outcome(rs.file, bk,
                    [fx.result EXCEPT !.success = FALSE, !.details = <<"IGNORE reverted", sane.msg>>],
                    FALSE, affected, "returned", "failed")

_run_ignore(text, bkp, affected_lines, validation_name, io) ==
    LET bk == backup_file(text, bkp, io.backup)
        removal == IF io.write THEN _ignore_affected_lines(text, affected_lines, io.fix)
                   ELSE failed_write(_ignore_affected_lines(text, affected_lines, FALSE))
        fx == [removal EXCEPT !.result.fix_name = <<"ignore_", validation_name>>]
    IN IF affected_lines = <<>>
       THEN Outcome(text, bkp,
                    FixResult(<<"ignore_", validation_name>>, 0, <<>>, TRUE,
                              "No lines to remove"),
                    FALSE, affected_lines, "not called", "not run")
       ELSE IF bk.raised
       THEN ignore_backup_failed(text, bkp, validation_name, affected_lines)
       ELSE IF ~fx.result.success
       THEN Outcome(fx.file, bk.backup, fx.result, FALSE, affected_lines,
                    "returned", "not run")
       ELSE ignore_verify(fx, bk.backup, affected_lines, io)

----------------------------------------------------------------------------
(* Validation Orchestrator: one iteration of the loop of validate_and_fix *)

\* the record validate_and_fix builds from a FixResult
\* strategy_applied set as the checks set it, not from the mapping
fix_record_of_default_strategy(validation_name, strategy, fix_result, details) ==
    ValidationResult(validation_name,
                     IF fix_result.lines_fixed > 0 THEN "fixed" ELSE "passed",
                     "ignore", details, fix_result.lines_removed, fix_result.lines_fixed)

fix_record(validation_name, strategy, fix_result, details) ==
    ValidationResult(validation_name,
                     IF fix_result.lines_fixed > 0 THEN "fixed" ELSE "passed",
                     strategy, details, fix_result.lines_removed, fix_result.lines_fixed)

NoCall(text, bk) == Outcome(text, bk, NoResult, FALSE, <<>>, "not called", "not run")

\* the body of the loop for a registered check: the check, the repair the
\* strategy selects, the record appended
cycle(text, bk, validation_name, strategy, io) ==
    LET check_result == _run_check(text, validation_name, io.check)
        rf == _run_fix(text, bk, validation_name, io)
        ri == _run_ignore(text, bk, check_result.affected_lines, validation_name, io)
    IN IF check_result.status = "passed"
       THEN [called |-> "none", check |-> check_result, out |-> NoCall(text, bk),
             record |-> [check_result EXCEPT !.strategy_applied = strategy]]
       ELSE IF strategy = "fix"
       THEN IF validation_name \in _fix_registry
            THEN [called |-> "_run_fix", check |-> check_result, out |-> rf,
                  record |-> fix_record(validation_name, strategy, rf.result,
                                        rf.result.details)]
            ELSE [called |-> "_run_ignore", check |-> check_result, out |-> ri,
                  record |-> fix_record(validation_name, strategy, ri.result,
                                        <<"Fallback to IGNORE", ri.result.details>>)]
       ELSE [called |-> "_run_ignore", check |-> check_result, out |-> ri,
             record |-> fix_record(validation_name, strategy, ri.result,
                                   ri.result.details)]

----------------------------------------------------------------------------
(* Inputs *)

Strategies == {"fix", "ignore"}

CheckNames == _validation_registry \cup {"check_unknown"}

\* a validations mapping: a dict keeps declaration order and has distinct keys
Mappings ==
    {m \in SeqsUpTo([name : CheckNames, strategy : Strategies], MaxChecks) :
        \A i, j \in DOMAIN m : i # j => m[i].name # m[j].name}

\* a header with an unbalanced quote, and a plain one
Header == <<"a", QUOTE>>

Headers == {<<"a">>, Header}

\* a blank line, a clean line, a line with an odd field, one with an even
\* field, one with an odd and an even field
BodyLines ==
    { <<>>,
      <<"a">>,
      <<"a", QUOTE>>,
      <<QUOTE, "a", QUOTE>>,
      <<QUOTE, SEP, QUOTE, "a", QUOTE>> }

\* further lines: whitespace only, a lone quote, an escaped pair
MoreLines == BodyLines \cup { <<SPACE>>, <<QUOTE>>, <<"a", QUOTE, QUOTE>> }

\* header line, then up to MaxLines - 1 further lines; an empty last line is a
\* trailing newline
Files == {join(NL, <<Header>> \o b) : b \in SeqsUpTo(BodyLines, MaxLines - 1)}

UnitFiles ==
    {join(NL, <<h>> \o b) : h \in Headers, b \in SeqsUpTo(MoreLines, MaxLines - 1)}

\* header line and one line of any characters
LineFiles == {join(NL, <<<<"a">>, l>>) : l \in SeqsUpTo(Alphabet, MaxLen)}

\* the line 123;"AB"C;456
LineABC == <<"1", "2", "3", SEP, QUOTE, "A", "B", QUOTE, "C", SEP, "4", "5", "6">>

\* the line 123;AB""CD"EF"";456
LineABCDEF ==
    <<"1", "2", "3", SEP, "A", "B", QUOTE, QUOTE, "C", "D", QUOTE, "E", "F",
      QUOTE, QUOTE, SEP, "4", "5", "6">>

\* the two lines of the documented scenarios, and lines whose fields mix
\* escaped pairs with single quotes
ScenarioLines ==
    { LineABC,
      LineABCDEF,
      <<QUOTE, "a", QUOTE, QUOTE, QUOTE>>,
      <<QUOTE, QUOTE, "a", QUOTE, "b", QUOTE, SEP, QUOTE>>,
      <<"a", QUOTE, QUOTE, "b", QUOTE, QUOTE, "c", SEP, QUOTE, QUOTE, QUOTE, QUOTE>> }

ScenarioFiles == {join(NL, <<<<"a">>, l>>) : l \in ScenarioLines}

\* lists of line numbers: of lines after the header, and of any lines or none
BodyLists == {sorted(S) : S \in SUBSET (2..MaxLines)}

AffectedLists == {sorted(S) : S \in SUBSET (1..(MaxLines + 1))}

----------------------------------------------------------------------------------------------------------------------------------------------
(* History *)

NoLast ==
    [op |-> "none", validation_name |-> "none", pre |-> <<>>, bkPre |-> NoFile,
     affected |-> <<>>, backed_up |-> "not called", sanity |-> "not run",
     raised |-> FALSE, result |-> NoResult]

LastOf(op, validation_name, text, bk, out) ==
    [op |-> op, validation_name |-> validation_name, pre |-> text, bkPre |-> bk,
     affected |-> out.affected, backed_up |-> out.backed_up, sanity |-> out.sanity,
     raised |-> out.raised, result |-> out.result]

\* what the cycle behind a record did
Observation(text, bk, c, io) ==
    [read_error |-> ~io.check,
     found |-> c.check.affected_lines # <<>> \/ c.out.affected # <<>>,
     called |-> c.called,
     backed_up |-> c.out.backed_up,
     sanity |-> c.out.sanity,
     success |-> c.called # "none" /\ c.out.result.success,
     changed |-> c.out.file # text \/ c.out.backup # bk]

\* the history of the day after a repair call
Repaired(text, bk, out) ==
    /\ firstPre' = IF out.backed_up # "not called" /\ firstPre = NoFile
                   THEN text ELSE firstPre
    /\ copies' = IF out.backup # bk THEN Min(copies + 1, MaxCount) ELSE copies
    /\ backupCalls' = IF out.backed_up = "returned"
                      THEN Min(backupCalls + 1, MaxCount) ELSE backupCalls

----------------------------------------------------------------------------
(* validate_and_fix on the file *)

Init ==
    /\ file \in Files
    /\ backup = NoFile
    /\ pc = "idle"
    /\ validations = <<>>
    /\ idx = 1
    /\ results = <<>>
    /\ obs = <<>>
    /\ last = NoLast
    /\ firstPre = NoFile
    /\ copies = 0
    /\ backupCalls = 0
    /\ calls = 0

\* validate_and_fix is called: results = []
Call(m) ==
    /\ pc # "loop"
    /\ calls < MaxCalls
    /\ calls' = calls + 1
    /\ pc' = "loop"
    /\ validations' = m
    /\ idx' = 1
    /\ results' = <<>>
    /\ obs' = <<>>
    /\ last' = NoLast
    /\ UNCHANGED <<file, backup, firstPre, copies, backupCalls>>

\* the loop meets a name that is not in _validation_registry
\* break where the code has continue: the unknown name ends the loop
SkipUnknownBreaks ==
    /\ pc = "loop"
    /\ idx <= Len(validations)
    /\ validations[idx].name \notin _validation_registry
    /\ pc' = "returned"
    /\ UNCHANGED <<file, backup, validations, idx, results, obs, last,
                   firstPre, copies, backupCalls, calls>>

SkipUnknown ==
    /\ pc = "loop"
    /\ idx <= Len(validations)
    /\ validations[idx].name \notin _validation_registry
    /\ idx' = idx + 1
    /\ UNCHANGED <<file, backup, pc, validations, results, obs, last,
                   firstPre, copies, backupCalls, calls>>

\* the loop runs the check and the repair of a registered name
Cycle(io) ==
    /\ pc = "loop"
    /\ idx <= Len(validations)
    /\ validations[idx].name \in _validation_registry
    /\ \E c \in {cycle(file, backup, validations[idx].name, validations[idx].strategy, io)} :
          /\ file' = c.out.file
          /\ backup' = c.out.backup
          /\ IF c.out.raised
             THEN pc' = "raised" /\ results' = <<>> /\ obs' = <<>> /\ idx' = idx
             ELSE /\ pc' = pc
                  /\ results' = Append(results, c.record)
                  /\ obs' = Append(obs, Observation(file, backup, c, io))
                  /\ idx' = idx + 1
          /\ last' = IF c.called = "none" THEN last
                     ELSE LastOf(c.called, validations[idx].name, file, backup, c.out)
          /\ Repaired(file, backup, c.out)
    /\ UNCHANGED <<validations, calls>>

\* the loop is over: return results
Return ==
    /\ pc = "loop"
    /\ idx > Len(validations)
    /\ pc' = "returned"
    /\ UNCHANGED <<file, backup, validations, idx, results, obs, last,
                   firstPre, copies, backupCalls, calls>>

\* validate_and_fix on the file, up to MaxCalls times on one day
Next ==
    \/ \E m \in Mappings : Call(m)
    \/ SkipUnknown
    \/ \E io \in IO : Cycle(io)
    \/ Return

Spec == Init /\ [][Next]_vars

----------------------------------------------------------------------------
(* _run_fix and _run_ignore called on the file in any sequence, over the days *)

RunFix(validation_name, io) ==
    /\ \E out \in {_run_fix(file, backup, validation_name, io)} :
          /\ file' = out.file
          /\ backup' = out.backup
          /\ last' = LastOf("_run_fix", validation_name, file, backup, out)
          /\ Repaired(file, backup, out)
    /\ UNCHANGED <<pc, validations, idx, results, obs, calls>>

RunIgnore(affected_lines, validation_name, io) ==
    /\ \E out \in {_run_ignore(file, backup, affected_lines, validation_name, io)} :
          /\ file' = out.file
          /\ backup' = out.backup
          /\ last' = LastOf("_run_ignore", validation_name, file, backup, out)
          /\ Repaired(file, backup, out)
    /\ UNCHANGED <<pc, validations, idx, results, obs, calls>>

\* midnight: the backup directory of the new date holds nothing yet
NextDay ==
    /\ backup # NoFile
    /\ backup' = NoFile
    /\ last' = NoLast
    /\ firstPre' = NoFile
    /\ copies' = 0
    /\ backupCalls' = 0
    /\ UNCHANGED <<file, pc, validations, idx, results, obs, calls>>

NextRepair ==
    \/ \E n \in _validation_registry, io \in IOFix : RunFix(n, io)
    \/ \E a \in BodyLists, io \in IOIgnore : RunIgnore(a, "check_redundant_quotes", io)
    \/ NextDay

SpecRepair == Init /\ [][NextRepair]_vars

----------------------------------------------------------------------------
(* The bare fix methods applied to a file, no backup involved *)

InitUnit ==
    /\ file \in UnitFiles \cup LineFiles \cup ScenarioFiles
    /\ backup = NoFile
    /\ pc = "idle"
    /\ validations = <<>>
    /\ idx = 1
    /\ results = <<>>
    /\ obs = <<>>
    /\ last = NoLast
    /\ firstPre = NoFile
    /\ copies = 0
    /\ backupCalls = 0
    /\ calls = 0

Applied(op, text, affected, fx) ==
    [op |-> op, validation_name |-> "none", pre |-> text, bkPre |-> NoFile,
     affected |-> affected, backed_up |-> "not called", sanity |-> "not run",
     raised |-> FALSE, result |-> fx.result]

FixRedundant(ok) ==
    /\ \E fx \in {_fix_redundant_quotes(file, ok)} :
          /\ file' = fx.file
          /\ last' = Applied("_fix_redundant_quotes", file, affected_by_odd(file), fx)
    /\ UNCHANGED <<backup, pc, validations, idx, results, obs,
                   firstPre, copies, backupCalls, calls>>

FixMalformed(ok) ==
    /\ \E fx \in {_fix_malformed_quotes(file, ok)} :
          /\ file' = fx.file
          /\ last' = Applied("_fix_malformed_quotes", file, affected_by_even(file), fx)
    /\ UNCHANGED <<backup, pc, validations, idx, results, obs,
                   firstPre, copies, backupCalls, calls>>

IgnoreLines(affected_lines, ok) ==
    /\ \E fx \in {_ignore_affected_lines(file, affected_lines, ok)} :
          /\ file' = fx.file
          /\ last' = Applied("_ignore_affected_lines", file, affected_lines, fx)
    /\ UNCHANGED <<backup, pc, validations, idx, results, obs,
                   firstPre, copies, backupCalls, calls>>

NextUnit ==
    \/ \E ok \in BOOLEAN : FixRedundant(ok)
    \/ \E ok \in BOOLEAN : FixMalformed(ok)
    \/ \E a \in AffectedLists, ok \in BOOLEAN : IgnoreLines(a, ok)

SpecUnit == InitUnit /\ [][NextUnit]_vars

----------------------------------------------------------------------------
(* _validate_fix_sanity on its own: a fixed file and a backup of any lines, *)
(* the empty file among them.                                               *)

Texts == SeqsUpTo({"a", NL}, MaxText)

InitSanity ==
    /\ file \in Texts
    /\ backup \in Texts
    /\ pc = "idle"
    /\ validations = <<>>
    /\ idx = 1
    /\ results = <<>>
    /\ obs = <<>>
    /\ last = NoLast
    /\ firstPre = NoFile
    /\ copies = 0
    /\ backupCalls = 0
    /\ calls = 0

ValidateFixSanity(ok) ==
    /\ \E sane \in {_validate_fix_sanity(file, backup, ok)} :
          last' = [NoLast EXCEPT !.op = "_validate_fix_sanity",
                                 !.pre = file,
                                 !.bkPre = backup,
                                 !.sanity = IF sane.ok THEN "passed" ELSE "failed",
                                 !.result = [NoResult EXCEPT !.success = sane.ok,
                                                             !.details = sane.msg]]
    /\ UNCHANGED <<file, backup, pc, validations, idx, results, obs,
                   firstPre, copies, backupCalls, calls>>

NextSanity == \E ok \in BOOLEAN : ValidateFixSanity(ok)

SpecSanity == InitSanity /\ [][NextSanity]_vars

----------------------------------------------------------------------------
(* Two files repaired on one day.  Here file maps each path to its text,   *)
(* backup maps each path below the day's backup directory to what it holds, *)
(* and firstPre maps each path to its text before its first repair.         *)

\* file paths as their parts: one below the raw-data root, two elsewhere
Paths ==
    { <<"data", "01_raw", "a", "x.csv">>,
      <<"in", "a", "x.csv">>,
      <<"in", "b", "x.csv">> }

\* backup_file: the parts after "01_raw", the file name if there is none
relative_path(parts) ==
    IF \E i \in DOMAIN parts : parts[i] = "01_raw"
    THEN LET raw_idx == CHOOSE i \in DOMAIN parts :
                            /\ parts[i] = "01_raw"
                            /\ \A j \in 1..(i - 1) : parts[j] # "01_raw"
             relative_parts == SubSeq(parts, raw_idx + 1, Len(parts))
         IN IF relative_parts # <<>> THEN relative_parts ELSE <<parts[Len(parts)]>>
    ELSE <<parts[Len(parts)]>>

PairTexts ==
    { join(NL, <<Header, <<"a", QUOTE>>>>),
      join(NL, <<Header, <<QUOTE, "a", QUOTE>>>>),
      join(NL, <<Header, <<"a", QUOTE>>, <<"a", QUOTE>>>>) }

InitFiles ==
    /\ \E S \in SUBSET Paths :
          /\ Cardinality(S) = 2
          /\ file \in [S -> PairTexts]
          /\ backup = [k \in {relative_path(q) : q \in S} |-> NoFile]
          /\ firstPre = [q \in S |-> NoFile]
    /\ pc = "idle"
    /\ validations = <<>>
    /\ idx = 1
    /\ results = <<>>
    /\ obs = <<>>
    /\ last = NoLast
    /\ copies = 0
    /\ backupCalls = 0
    /\ calls = 0

\* what a repair call on the file at path leaves
RepairedOn(path, op, validation_name, out) ==
    /\ file' = [file EXCEPT ![path] = out.file]
    /\ backup' = [backup EXCEPT ![relative_path(path)] = out.backup]
    /\ firstPre' = [firstPre EXCEPT ![path] =
                       IF out.backed_up = "returned" /\ firstPre[path] = NoFile
                       THEN file[path] ELSE @]
    /\ last' = [NoLast EXCEPT !.op = op,
                               !.validation_name = validation_name,
                               !.backed_up = out.backed_up,
                               !.sanity = out.sanity,
                               !.raised = out.raised]
    /\ UNCHANGED <<pc, validations, idx, results, obs, copies, backupCalls, calls>>

RunFixOn(path, validation_name, io) ==
    \E out \in {_run_fix(file[path], backup[relative_path(path)], validation_name, io)} :
        RepairedOn(path, "_run_fix", validation_name, out)

RunIgnoreOn(path, affected_lines, validation_name, io) ==
    \E out \in {_run_ignore(file[path], backup[relative_path(path)], affected_lines,
                            validation_name, io)} :
        RepairedOn(path, "_run_ignore", validation_name, out)

\* the calls with no I/O failure, or with the sanity read failing
IOFiles == {IOof({}), IOof({"sanity"})}

NextFiles ==
    \/ \E path \in DOMAIN file, n \in _validation_registry, io \in IOFiles :
          RunFixOn(path, n, io)
    \/ \E path \in DOMAIN file, a \in BodyLists, io \in IOFiles :
          RunIgnoreOn(path, a, "check_redundant_quotes", io)

SpecFiles == InitFiles /\ [][NextFiles]_vars

----------------------------------------------------------------------------
(* The two checks run on the same file content: results holds the record of *)
(* check_redundant_quotes, then the record of check_malformed_quotes.       *)

RunChecks(readable) ==
    /\ results' = << _run_check(file, "check_redundant_quotes", readable),
                     _run_check(file, "check_malformed_quotes", readable) >>
    /\ last' = [NoLast EXCEPT !.op = "_run_check", !.pre = file]
    /\ UNCHANGED <<file, backup, pc, validations, idx, obs,
                   firstPre, copies, backupCalls, calls>>

NextCheck == \E readable \in BOOLEAN : RunChecks(readable)

SpecCheck == InitUnit /\ [][NextCheck]_vars

----------------------------------------------------------------------------
(* Two workers, each running backup_file and then the redundant fix on its  *)
(* own file below the raw-data root, one file system call at a time.  Here  *)
(* pc maps each worker to its next step, validations maps it to its path,   *)
(* file and firstPre map each path to its text and its text at the start,   *)
(* and backup holds the directories and the files below the backup root.    *)

Workers == {1, 2}

RawPaths ==
    { <<"data", "01_raw", "a", "x.csv">>,
      <<"data", "01_raw", "a", "y.csv">>,
      <<"data", "01_raw", "b", "x.csv">> }

\* the directory of the date, as a path below the backup root
DayDir == <<>>

\* backup_path.parent
parent(path) == SubSeq(path, 1, Len(path) - 1)

\* Path.mkdir without exist_ok: raises when the directory is there
mkdir_exclusive(dirs, d) ==
    IF d \in dirs THEN [raised |-> TRUE, dirs |-> dirs]
    ELSE [raised |-> FALSE, dirs |-> dirs \cup {d}]

\* Path.mkdir(parents=True, exist_ok=True): the directory made, or found there
mkdir(dirs, d) == [raised |-> FALSE, dirs |-> dirs \cup {d}]

InitWorkers ==
    /\ validations \in {v \in [Workers -> RawPaths] : v[1] # v[2]}
    /\ file \in [{validations[w] : w \in Workers} -> PairTexts]
    /\ firstPre = file
    /\ backup = [dirs |-> {},
                 files |-> [k \in {relative_path(validations[w]) : w \in Workers}
                               |-> NoFile]]
    /\ pc = [w \in Workers |-> "mkdir day"]
    /\ idx = 1
    /\ results = <<>>
    /\ obs = <<>>
    /\ last = NoLast
    /\ copies = 0
    /\ backupCalls = 0
    /\ calls = 0

\* backup_dir.mkdir(parents=True, exist_ok=True)
MkdirDay(w) ==
    /\ pc[w] = "mkdir day"
    /\ \E m \in {mkdir(backup.dirs, DayDir)} :
          /\ backup' = [backup EXCEPT !.dirs = m.dirs]
          /\ pc' = [pc EXCEPT ![w] = IF m.raised THEN "failed" ELSE "mkdir parent"]
    /\ UNCHANGED <<file, validations, idx, results, obs, last,
                   firstPre, copies, backupCalls, calls>>

\* backup_path.parent.mkdir(parents=True, exist_ok=True)
MkdirParent(w) ==
    /\ pc[w] = "mkdir parent"
    /\ \E m \in {mkdir(backup.dirs, parent(relative_path(validations[w])))} :
          /\ backup' = [backup EXCEPT !.dirs = m.dirs]
          /\ pc' = [pc EXCEPT ![w] = IF m.raised THEN "failed" ELSE "exists"]
    /\ UNCHANGED <<file, validations, idx, results, obs, last,
                   firstPre, copies, backupCalls, calls>>

\* if backup_path.exists(): return
Exists(w) ==
    /\ pc[w] = "exists"
    /\ pc' = [pc EXCEPT ![w] =
                 IF backup.files[relative_path(validations[w])] # NoFile
                 THEN "fix" ELSE "copy"]
    /\ UNCHANGED <<file, backup, validations, idx, results, obs, last,
                   firstPre, copies, backupCalls, calls>>

\* shutil.copy2(file_path, backup_path)
Copy(w) ==
    /\ pc[w] = "copy"
    /\ backup' = [backup EXCEPT !.files[relative_path(validations[w])] =
                                     file[validations[w]]]
    /\ pc' = [pc EXCEPT ![w] = "fix"]
    /\ UNCHANGED <<file, validations, idx, results, obs, last,
                   firstPre, copies, backupCalls, calls>>

\* the fix method of _run_fix rewrites the worker's file
Fix(w) ==
    /\ pc[w] = "fix"
    /\ file' = [file EXCEPT ![validations[w]] = _fix_redundant_quotes(@, TRUE).file]
    /\ pc' = [pc EXCEPT ![w] = "done"]
    /\ UNCHANGED <<backup, validations, idx, results, obs, last,
                   firstPre, copies, backupCalls, calls>>

NextWorkers ==
    \E w \in Workers :
        \/ MkdirDay(w)
        \/ MkdirParent(w)
        \/ Exists(w)
        \/ Copy(w)
        \/ Fix(w)

SpecWorkers == InitWorkers /\ [][NextWorkers]_vars

----------------------------------------------------------------------------
(* One DataValidationHook instance of hooks.py over a sequence of pipeline  *)
(* runs.  Here results is _output_results and obs is _results, validations  *)
(* holds _input_config, _output_config and                                  *)
(* _dataframe_report_include_passed, pc is "idle" between runs, "running"   *)
(* inside one and "raised" after before_pipeline_run raised, calls numbers  *)
(* the runs and last is the report saved to rpt_dataframe_validation_report.*)
(* A result carries the number of the run that produced it.                 *)

hook_validation_registry ==
    {"validate_time_completeness", "validate_uniqueness",
     "validate_bounds", "validate_allowed_values"}

PipelineNames == {"None", "intermediate", "__default__", "reporting"}

DatasetNames == {"funds", "other"}

ValidationLists == {<<"validate_uniqueness">>, <<"unknown_validation", "validate_bounds">>}

\* output_validations and input_validations as _load_params returns them
HookConfigs ==
    UNION {[D -> ValidationLists] : D \in SUBSET {"funds"}}

NoReport == [op |-> "none", run |-> 0, rows |-> <<>>]

RECURSIVE _run_validations(_, _, _, _, _)

\* _output_results after the loop over the validations of one dataset; a name
\* that is not in the registry gives no result
_run_validations(output_results, dataset_name, names, passed, run) ==
    IF names = <<>> THEN output_results
    ELSE _run_validations(
             IF Head(names) \in hook_validation_registry
             THEN Append(output_results,
                         [run |-> run, dataset_name |-> dataset_name,
                          validation_name |-> Head(names), passed |-> Head(passed)])
             ELSE output_results,
             dataset_name, Tail(names), Tail(passed), run)

InitHook ==
    /\ results = <<>>
    /\ obs = <<>>
    /\ validations = [input |-> <<>>, output |-> <<>>, report_include_passed |-> FALSE]
    /\ pc = "idle"
    /\ calls = 0
    /\ last = NoReport
    /\ file = NoFile
    /\ backup = NoFile
    /\ idx = 1
    /\ firstPre = NoFile
    /\ copies = 0
    /\ backupCalls = 0

\* raw: what the loop over the raw datasets does once validation is enabled:
\* it gives no record, gives records, or _validate_dataset raises
BeforePipelineRun(pipeline_name, input, output, include_passed, loads, enabled, raw) ==
    /\ pc \in {"idle", "raised"}
    /\ calls < MaxRuns
    /\ calls' = calls + 1
    /\ validations' = [input |-> input, output |-> output,
                       report_include_passed |-> include_passed]
    /\ IF pipeline_name \notin {"None", "intermediate", "__default__"}
          \/ ~loads
          \/ ~enabled
       THEN /\ pc' = "running"
            /\ UNCHANGED <<results, obs>>
       ELSE /\ results' = <<>>
            /\ obs' = IF raw = "records" THEN <<calls + 1>> ELSE <<>>
            /\ pc' = IF raw = "raises" THEN "raised" ELSE "running"
    /\ UNCHANGED <<file, backup, idx, last, firstPre, copies, backupCalls>>

\* a dataset loaded as one DataFrame
AfterDatasetLoaded(dataset_name, passed) ==
    /\ pc = "running"
    /\ IF dataset_name \notin DOMAIN validations.input
       THEN UNCHANGED results
       ELSE /\ Len(results) + Len(validations.input[dataset_name]) <= MaxResults
            /\ \E p \in [DOMAIN validations.input[dataset_name] -> {passed}] :
                  results' = _run_validations(results, dataset_name,
                                              validations.input[dataset_name], p, calls)
    /\ UNCHANGED <<file, backup, pc, validations, idx, obs, last,
                   firstPre, copies, backupCalls, calls>>

AfterDatasetSaved(dataset_name, passed) ==
    /\ pc = "running"
    /\ IF dataset_name \notin DOMAIN validations.output
       THEN UNCHANGED results
       ELSE /\ Len(results) + Len(validations.output[dataset_name]) <= MaxResults
            /\ \E p \in [DOMAIN validations.output[dataset_name] -> {passed}] :
                  results' = _run_validations(results, dataset_name,
                                              validations.output[dataset_name], p, calls)
    /\ UNCHANGED <<file, backup, pc, validations, idx, obs, last,
                   firstPre, copies, backupCalls, calls>>

AfterPipelineRun ==
    /\ pc = "running"
    /\ pc' = "idle"
    /\ last' = [op |-> "after_pipeline_run",
                run |-> calls,
                rows |-> IF validations.report_include_passed
                         THEN results
                         ELSE SelectSeq(results, LAMBDA r : ~r.passed)]
    /\ UNCHANGED <<file, backup, validations, idx, results, obs,
                   firstPre, copies, backupCalls, calls>>

NextHook ==
    \/ \E pipeline_name \in PipelineNames, input \in HookConfigs, output \in HookConfigs,
          include_passed \in BOOLEAN, loads \in BOOLEAN, enabled \in BOOLEAN,
          raw \in {"none", "records", "raises"} :
            BeforePipelineRun(pipeline_name, input, output, include_passed,
                              loads, enabled, raw)
    \/ \E dataset_name \in DatasetNames, passed \in BOOLEAN :
            AfterDatasetLoaded(dataset_name, passed)
    \/ \E dataset_name \in DatasetNames, passed \in BOOLEAN :
            AfterDatasetSaved(dataset_name, passed)
    \/ AfterPipelineRun

SpecHook == InitHook /\ [][NextHook]_vars

----------------------------------------------------------------------------
(* Claims *)

\* C1: whenever both checks are in the mapping, the cycle of
\* check_redundant_quotes runs before the cycle of check_malformed_quotes,
\* whatever the declaration order: its record precedes the other's.
C1_RedundantBeforeMalformed ==
    \A i, j \in DOMAIN results :
        (/\ results[i].validation_name = "check_redundant_quotes"
         /\ results[j].validation_name = "check_malformed_quotes") => i < j

\* C2: when backup_file raises in _run_fix or _run_ignore, the call returns a
\* FixResult with success = False and the reason, and the file is as before;
\* and no repair call leaves the file changed with no backup of the day.
C2_BackupFailureAborts ==
    /\ last.backed_up = "raised" =>
          /\ ~last.raised
          /\ last.result.success = FALSE
          /\ last.result.details = "Backup failed"
          /\ file = last.pre
    /\ (last.op \in {"_run_fix", "_run_ignore"} /\ file # last.pre) => backup # NoFile

C2_Witness ==
    /\ last.op = "_run_fix"
    /\ last.backed_up = "raised"
    /\ last.affected # <<>>
    /\ last.result.success = FALSE
    /\ file = last.pre

\* C3: when the sanity check fails after the mutation of _run_fix or
\* _run_ignore and the call returns, the file equals the backup and the
\* FixResult has success = False.
C3_SanityFailureRestores ==
    (last.sanity = "failed" /\ ~last.raised) =>
        (file = backup /\ last.result.success = FALSE)

C3_Witness ==
    /\ last.op = "_run_ignore"
    /\ last.sanity = "failed"
    /\ ~last.raised
    /\ last.result.lines_fixed > 0
    /\ file = backup

\* C4: within a day the file is copied to its backup at most once, the backup
\* holds the text the file had before the first repair of the day, and once a
\* backup call has returned the backup exists.
C4_OneBackupPerDay ==
    /\ copies <= 1
    /\ backup # NoFile => backup = firstPre
    /\ backupCalls > 0 => backup # NoFile

C4_Witness ==
    /\ backupCalls >= 2
    /\ copies = 1
    /\ backup = firstPre
    /\ file # backup
    /\ last.pre # backup

\* C5: when the checks of a cycle of validate_and_fix report no affected line,
\* the cycle changes neither the file nor the backup and its record is passed
\* with zero fixes; _run_fix and _run_ignore with no affected line return
\* success with zero lines fixed, make no backup and leave the file as it was.
C5_CleanFileUntouched ==
    /\ \A i \in DOMAIN obs :
          ~obs[i].found =>
              /\ ~obs[i].changed
              /\ results[i].status = "passed"
              /\ results[i].fixes_applied = 0
    /\ (last.op \in {"_run_fix", "_run_ignore"} /\ last.affected = <<>>) =>
          /\ ~last.raised
          /\ last.result.success
          /\ last.result.lines_fixed = 0
          /\ last.backed_up = "not called"
          /\ file = last.pre
          /\ backup = last.bkPre

C5_Witness ==
    /\ pc = "returned"
    /\ Len(results) = 2
    /\ \E i \in DOMAIN obs :
          /\ ~obs[i].found /\ ~obs[i].read_error
          /\ results[i].status = "passed"
    /\ last.op = "_run_fix"
    /\ last.affected = <<>>
    /\ backup = NoFile

\* C6: a cycle whose check could not read the file yields a record with status
\* failed and the read error as its details.
C6_ReadErrorReportedFailed ==
    \A i \in DOMAIN obs :
        obs[i].read_error =>
            (results[i].status = "failed" /\ results[i].details = "Error reading file")

NoIssueFound(i) == ~obs[i].found /\ ~obs[i].read_error

IssueFixed(i) == obs[i].found /\ obs[i].success /\ obs[i].sanity = "passed"

IssueNotFixed(i) ==
    obs[i].found /\ (obs[i].sanity = "failed" \/ obs[i].backed_up = "raised")

\* C7: a record that is passed with zero fixes comes only from a cycle that
\* found no issue; a fixed issue gives status fixed; an issue whose fix was
\* rolled back or aborted gives a status that is neither passed nor fixed.
C7_OutcomesDistinguishable ==
    \A i \in DOMAIN obs :
        /\ (results[i].status = "passed" /\ results[i].fixes_applied = 0) => NoIssueFound(i)
        /\ IssueFixed(i) => results[i].status = "fixed"
        /\ IssueNotFixed(i) => results[i].status \notin {"passed", "fixed"}

ends_with_newline(text) == text # <<>> /\ text[Len(text)] = NL

\* the lines of text without the lines numbered in affected, the header and
\* the blank lines kept whatever their numbers
Omitted(text, affected) ==
    LET lines == split(text, NL)
        kept == sorted({n \in DOMAIN lines :
                    \/ n = 1
                    \/ blank(lines[n])
                    \/ ~(\E k \in DOMAIN affected : affected[k] = n)})
    IN join(NL, [k \in DOMAIN kept |-> lines[kept[k]]])

\* C8: the file written by _ignore_affected_lines is the original sequence of
\* lines without exactly the affected line numbers: the header and every blank
\* line are still there, the order is kept, and a trailing newline is present
\* iff the original had one.
C8_IgnoreOmitsExactlyAffected ==
    (last.op = "_ignore_affected_lines" /\ last.result.success) =>
        /\ file = Omitted(last.pre, last.affected)
        /\ ends_with_newline(file) <=> ends_with_newline(last.pre)

SameLineStructure(before, after) ==
    LET a == split(before, NL)
        b == split(after, NL)
    IN /\ Len(b) = Len(a)
       /\ b[1] = a[1]
       /\ \A n \in DOMAIN a : blank(a[n]) => b[n] = a[n]
       /\ \A n \in DOMAIN a : Len(split(b[n], SEP)) = Len(split(a[n], SEP))
       /\ ends_with_newline(after) <=> ends_with_newline(before)

\* C9: _fix_redundant_quotes and _fix_malformed_quotes keep the line
\* structure: as many lines in the same places, the header and every blank
\* line unchanged, every line's number of fields unchanged, and a trailing
\* newline present iff the input had one.
C9_RepairKeepsLineStructure ==
    (/\ last.op \in {"_fix_redundant_quotes", "_fix_malformed_quotes"}
     /\ last.result.success) => SameLineStructure(last.pre, file)

flagged_redundant(text, n) ==
    \E k \in DOMAIN _check_redundant_quotes(text, TRUE).affected_lines :
        _check_redundant_quotes(text, TRUE).affected_lines[k] = n

\* every field of a data line of before that has exactly one unescaped quote:
\* its line is flagged, the line has as many fields after, and P holds of the
\* field before and after
OddFields(before, after, P(_, _)) ==
    LET a == split(before, NL)
        b == split(after, NL)
    IN \A n \in DOMAIN a :
          (n # 1 /\ ~blank(a[n])) =>
              \A k \in DOMAIN split(a[n], SEP) :
                  unescaped_count(split(a[n], SEP)[k]) = 1 =>
                      /\ flagged_redundant(before, n)
                      /\ Len(split(b[n], SEP)) = Len(split(a[n], SEP))
                      /\ P(split(a[n], SEP)[k], split(b[n], SEP)[k])

no_quote_left(f, g) == count(g, QUOTE) = 0

only_pairs_left(f, g) ==
    unescaped_count(g) = 0 /\ count(g, QUOTE) = count(f, QUOTE) - 1

\* C10 as stated: a field with exactly one unescaped quote has its line flagged
\* by check_redundant_quotes, and after _fix_redundant_quotes the field holds
\* no quote character and the line has as many fields.
C10_OddFieldHasNoQuoteLeft ==
    (last.op = "_fix_redundant_quotes" /\ last.result.success) =>
        OddFields(last.pre, file, no_quote_left)

\* C10 amended: a field with exactly one unescaped quote has its line flagged
\* by check_redundant_quotes, and after _fix_redundant_quotes the field holds
\* no unescaped quote, only the quotes of its escaped pairs, and the line has
\* as many fields.
C10_OddFieldHasNoUnescapedQuoteLeft ==
    (last.op = "_fix_redundant_quotes" /\ last.result.success) =>
        OddFields(last.pre, file, only_pairs_left)

C10_Witness ==
    /\ last.op = "_fix_redundant_quotes"
    /\ last.result.success
    /\ \E n \in DOMAIN split(last.pre, NL) :
          /\ n # 1
          /\ \E k \in DOMAIN split(split(last.pre, NL)[n], SEP) :
                /\ unescaped_count(split(split(last.pre, NL)[n], SEP)[k]) = 1
                /\ count(split(split(last.pre, NL)[n], SEP)[k], QUOTE) = 3
                /\ count(split(split(file, NL)[n], SEP)[k], QUOTE) = 2
          /\ flagged_redundant(last.pre, n)

RECURSIVE unescaped_doubled(_, _)

flagged_malformed(text, n) ==
    \E k \in DOMAIN _check_malformed_quotes(text, TRUE).affected_lines :
        _check_malformed_quotes(text, TRUE).affected_lines[k] = n

\* the length of the run of quotes that ends at position i of f
run_length(f, i) ==
    i - CHOOSE j \in 0..i : (j = 0 \/ f[j] # QUOTE) /\ \A m \in (j + 1)..i : f[m] = QUOTE

\* position i of f is the last quote of a run of odd length: the unescaped one
unescaped_at(f, i) ==
    /\ f[i] = QUOTE
    /\ (i = Len(f) \/ f[i + 1] # QUOTE)
    /\ run_length(f, i) % 2 = 1

\* f from position i on, with one more quote after every unescaped quote
unescaped_doubled(f, i) ==
    IF i > Len(f) THEN <<>>
    ELSE (IF unescaped_at(f, i) THEN <<QUOTE, QUOTE>> ELSE <<f[i]>>)
         \o unescaped_doubled(f, i + 1)

\* C11: a field of a data line with a nonzero even number of unescaped quotes
\* has its line flagged by check_malformed_quotes; after _fix_malformed_quotes
\* the field is the original with every unescaped quote doubled and nothing
\* else changed, the line has as many fields, and check_malformed_quotes on the
\* written file reports passed.
C11_EvenFieldDoubled ==
    (last.op = "_fix_malformed_quotes" /\ last.result.success) =>
        /\ \A n \in DOMAIN split(last.pre, NL) :
              (n # 1 /\ ~blank(split(last.pre, NL)[n])) =>
                  \A k \in DOMAIN split(split(last.pre, NL)[n], SEP) :
                      LET f == split(split(last.pre, NL)[n], SEP)[k]
                      IN (unescaped_count(f) > 0 /\ unescaped_count(f) % 2 = 0) =>
                            /\ flagged_malformed(last.pre, n)
                            /\ Len(split(split(file, NL)[n], SEP))
                                  = Len(split(split(last.pre, NL)[n], SEP))
                            /\ split(split(file, NL)[n], SEP)[k] = unescaped_doubled(f, 1)
        /\ _check_malformed_quotes(file, TRUE).status = "passed"

C11_Witness ==
    /\ last.op = "_fix_malformed_quotes"
    /\ last.result.success
    /\ last.result.lines_fixed = 1
    /\ split(last.pre, NL)[2] = <<QUOTE, "a", QUOTE, QUOTE, QUOTE>>
    /\ split(file, NL)[2] = <<QUOTE, QUOTE, "a", QUOTE, QUOTE, QUOTE, QUOTE>>
    /\ _check_malformed_quotes(last.pre, TRUE).status = "failed"
    /\ _check_malformed_quotes(file, TRUE).status = "passed"

\* the quotes of f are those of escaped pairs only
only_pairs(f) == \A i \in DOMAIN f : ~unescaped_at(f, i)

all_only_pairs(line) == \A k \in DOMAIN split(line, SEP) : only_pairs(split(line, SEP)[k])

\* C12: a data line whose fields hold quotes only as escaped pairs is flagged
\* by neither check, and a file of such lines passes both checks; neither
\* _fix_redundant_quotes nor _fix_malformed_quotes changes a field that holds
\* quotes only as escaped pairs.
C12_EscapedPairsInvariant ==
    (/\ last.op \in {"_fix_redundant_quotes", "_fix_malformed_quotes"}
     /\ last.result.success) =>
        LET a == split(last.pre, NL)
            b == split(file, NL)
            data == {n \in DOMAIN a : n # 1 /\ ~blank(a[n])}
        IN /\ \A n \in data :
                 /\ Len(split(b[n], SEP)) = Len(split(a[n], SEP))
                 /\ \A k \in DOMAIN split(a[n], SEP) :
                        only_pairs(split(a[n], SEP)[k]) =>
                            split(b[n], SEP)[k] = split(a[n], SEP)[k]
                 /\ all_only_pairs(a[n]) =>
                        /\ ~flagged_redundant(last.pre, n)
                        /\ ~flagged_malformed(last.pre, n)
                        /\ b[n] = a[n]
           /\ (\A n \in data : all_only_pairs(a[n])) =>
                 /\ _check_redundant_quotes(last.pre, TRUE).status = "passed"
                 /\ _check_malformed_quotes(last.pre, TRUE).status = "passed"
                 /\ last.result.lines_fixed = 0
                 /\ file = last.pre

C12_Witness ==
    /\ last.op = "_fix_malformed_quotes"
    /\ last.result.success
    /\ Len(split(last.pre, NL)) = 2
    /\ split(last.pre, NL)[2] = <<"a", QUOTE, QUOTE, "b", QUOTE, QUOTE, "c", SEP,
                                  QUOTE, QUOTE, QUOTE, QUOTE>>
    /\ all_only_pairs(split(last.pre, NL)[2])
    /\ file = last.pre
    /\ _check_redundant_quotes(file, TRUE).status = "passed"
    /\ _check_malformed_quotes(file, TRUE).status = "passed"

\* the last call was _run_fix for check_redundant_quotes, it found the file
\* free of odd fields or fixed it and the fix stood
RedundantFixDone ==
    /\ last.op = "_run_fix"
    /\ last.validation_name = "check_redundant_quotes"
    /\ ~last.raised
    /\ last.result.success
    /\ (last.sanity = "passed" \/ affected_by_odd(last.pre) = <<>>)

\* C13: when _run_fix for check_redundant_quotes has fixed the file and is run
\* again, the second run reports zero lines fixed, leaves the file as it is,
\* and neither calls backup_file nor changes the backup.
C13_SecondRedundantFixIsNoOp ==
    [][(/\ RedundantFixDone
        /\ last'.op = "_run_fix"
        /\ last'.validation_name = "check_redundant_quotes") =>
            /\ ~last'.raised
            /\ last'.result.success
            /\ last'.result.lines_fixed = 0
            /\ last'.backed_up = "not called"
            /\ file' = file
            /\ backup' = backup]_vars

C13_Witness ==
    /\ RedundantFixDone
    /\ last.result.lines_fixed = 0
    /\ last.backed_up = "not called"
    /\ file = last.pre
    /\ backup # NoFile
    /\ copies = 1
    /\ affected_by_odd(backup) # <<>>
    /\ file # backup
    /\ file = _fix_redundant_quotes(backup, TRUE).file

\* validate_and_fix has returned from the redundant fix followed by the
\* malformed fix, and each cycle either found nothing or repaired the file
\* with its backup made and its sanity check passed
BothFixesRan ==
    /\ pc = "returned"
    /\ validations = << [name |-> "check_redundant_quotes", strategy |-> "fix"],
                        [name |-> "check_malformed_quotes", strategy |-> "fix"] >>
    /\ Len(obs) = 2
    /\ \A i \in DOMAIN obs :
          /\ ~obs[i].read_error
          /\ \/ obs[i].called = "none"
             \/ (obs[i].called = "_run_fix" /\ obs[i].success /\ obs[i].sanity = "passed")

clean_text(text) ==
    \A n \in DOMAIN split(text, NL) :
        (n # 1 /\ ~blank(split(text, NL)[n])) => all_only_pairs(split(text, NL)[n])

\* C14: after the redundant fix and then the malformed fix under the REPAIR
\* strategy, the backup succeeding, every data line of the file is clean and
\* both checks report passed; so for a line with an odd field and an even
\* field.
C14_RedundantThenMalformedResolves ==
    BothFixesRan =>
        /\ clean_text(file)
        /\ _check_redundant_quotes(file, TRUE).status = "passed"
        /\ _check_malformed_quotes(file, TRUE).status = "passed"

C14_Witness ==
    /\ BothFixesRan
    /\ results[1].status = "fixed"
    /\ results[2].status = "fixed"
    /\ copies = 1
    /\ backup = join(NL, <<Header, <<QUOTE, SEP, QUOTE, "a", QUOTE>>>>)
    /\ file = join(NL, <<Header, <<SEP, QUOTE, QUOTE, "a", QUOTE, QUOTE>>>>)
    /\ clean_text(file)

FileABC == join(NL, <<<<"a">>, LineABC>>)

\* C15 as stated: the line 123;"AB"C;456 is flagged by check_redundant_quotes
\* and _fix_redundant_quotes rewrites it to 123;ABC;456.
C15_ScenarioIsRedundant ==
    (last.op = "_fix_redundant_quotes" /\ last.result.success /\ last.pre = FileABC) =>
        /\ flagged_redundant(last.pre, 2)
        /\ file = join(NL, <<<<"a">>,
                     <<"1", "2", "3", SEP, "A", "B", "C", SEP, "4", "5", "6">>>>)

\* C15 amended: the field "AB"C of the line 123;"AB"C;456 has two unescaped
\* quotes: check_redundant_quotes does not flag the line and
\* _fix_redundant_quotes leaves it as it is; check_malformed_quotes flags it
\* and _fix_malformed_quotes rewrites it to 123;""AB""C;456.
C15_ScenarioIsMalformed ==
    /\ (last.op = "_fix_redundant_quotes" /\ last.result.success /\ last.pre = FileABC) =>
          /\ unescaped_count(split(LineABC, SEP)[2]) = 2
          /\ ~flagged_redundant(last.pre, 2)
          /\ last.result.lines_fixed = 0
          /\ file = FileABC
    /\ (last.op = "_fix_malformed_quotes" /\ last.result.success /\ last.pre = FileABC) =>
          /\ flagged_malformed(last.pre, 2)
          /\ file = join(NL, <<<<"a">>,
                       <<"1", "2", "3", SEP, QUOTE, QUOTE, "A", "B", QUOTE, QUOTE, "C",
                         SEP, "4", "5", "6">>>>)

C15_Witness ==
    /\ last.op = "_fix_redundant_quotes"
    /\ last.result.success
    /\ last.pre = FileABC
    /\ file = FileABC
    /\ _check_redundant_quotes(file, TRUE).status = "passed"
    /\ _check_malformed_quotes(file, TRUE).status = "failed"

FileABCDEF == join(NL, <<<<"a">>, LineABCDEF>>)

\* C16 as stated: the line 123;AB""CD"EF"";456 is clean: neither check flags
\* it and neither fix changes it.
C16_ScenarioIsClean ==
    (/\ last.op \in {"_fix_redundant_quotes", "_fix_malformed_quotes"}
     /\ last.result.success
     /\ last.pre = FileABCDEF) =>
        /\ ~flagged_redundant(last.pre, 2)
        /\ ~flagged_malformed(last.pre, 2)
        /\ file = FileABCDEF

\* C16 amended: stripping the escaped pairs of the field AB""CD"EF"" leaves
\* one quote: check_redundant_quotes flags the line 123;AB""CD"EF"";456 and
\* _fix_redundant_quotes rewrites it to 123;AB""CDEF"";456;
\* check_malformed_quotes does not flag it and _fix_malformed_quotes leaves it
\* as it is.
C16_ScenarioHasOneUnescapedQuote ==
    /\ (last.op = "_fix_redundant_quotes" /\ last.result.success /\ last.pre = FileABCDEF) =>
          /\ unescaped_count(split(LineABCDEF, SEP)[2]) = 1
          /\ flagged_redundant(last.pre, 2)
          /\ file = join(NL, <<<<"a">>,
                       <<"1", "2", "3", SEP, "A", "B", QUOTE, QUOTE, "C", "D", "E", "F",
                         QUOTE, QUOTE, SEP, "4", "5", "6">>>>)
    /\ (last.op = "_fix_malformed_quotes" /\ last.result.success /\ last.pre = FileABCDEF) =>
          /\ ~flagged_malformed(last.pre, 2)
          /\ last.result.lines_fixed = 0
          /\ file = FileABCDEF

C16_Witness ==
    /\ last.op = "_fix_redundant_quotes"
    /\ last.result.success
    /\ last.pre = FileABCDEF
    /\ last.result.lines_fixed = 1
    /\ file # FileABCDEF
    /\ clean_text(file)

\* the lines of a text, blank ones included; a trailing newline ends the last
raw_lines(text) ==
    IF text = <<>> THEN 0
    ELSE Len(split(text, NL)) - (IF ends_with_newline(text) THEN 1 ELSE 0)

\* C17: with both files readable, _validate_fix_sanity fails exactly when
\* twice the line count of the fixed file is less than the line count of the
\* backup, header and blank lines counted; a fixed file of exactly half the
\* lines passes, and an empty backup never fails.
C17_SanityThreshold ==
    (last.op = "_validate_fix_sanity" /\ last.result.details # "Sanity check failed") =>
        /\ last.sanity = "failed" <=> 2 * raw_lines(last.pre) < raw_lines(last.bkPre)
        /\ 2 * raw_lines(last.pre) = raw_lines(last.bkPre) => last.sanity = "passed"
        /\ raw_lines(last.bkPre) = 0 => last.sanity = "passed"

C17_Witness ==
    /\ last.op = "_validate_fix_sanity"
    /\ last.sanity = "passed"
    /\ raw_lines(last.bkPre) = 4
    /\ raw_lines(last.pre) = 2
    /\ count(last.bkPre, "a") = 0

registered(e) == e.name \in _validation_registry

\* C18: the step of validate_and_fix on an unregistered name raises nothing
\* and changes neither the file, the backup nor the records, only moving on to
\* the next entry; and when validate_and_fix returns, every registered entry
\* of the mapping has its record.
C18_UnknownCheckSkipped ==
    /\ [][(/\ pc = "loop"
           /\ idx <= Len(validations)
           /\ ~registered(validations[idx])) =>
              /\ pc' = "loop"
              /\ idx' = idx + 1
              /\ UNCHANGED <<file, backup, results, obs, last,
                             firstPre, copies, backupCalls>>]_vars
    /\ [](pc = "returned" =>
            \A i \in DOMAIN validations :
                registered(validations[i]) =>
                    \E k \in DOMAIN results :
                        results[k].validation_name = validations[i].name)

C18_Witness ==
    /\ pc = "returned"
    /\ Len(validations) = 2
    /\ ~registered(validations[1])
    /\ registered(validations[2])
    /\ Len(results) = 1
    /\ results[1].validation_name = validations[2].name
    /\ results[1].status = "fixed"
    /\ backup # NoFile

\* C19 as stated: validate_and_fix returns as many records as the mapping has
\* entries, the i-th record carrying the name and the strategy of the i-th
\* entry.
C19_OneRecordPerEntry ==
    pc = "returned" =>
        /\ Len(results) = Len(validations)
        /\ \A i \in DOMAIN results :
              /\ results[i].validation_name = validations[i].name
              /\ results[i].strategy_applied = validations[i].strategy

\* C19 amended: validate_and_fix returns as many records as the mapping has
\* entries with a registered name, the i-th record carrying the name and the
\* strategy of the i-th of these entries; an unregistered name has no record.
C19_OneRecordPerRegisteredEntry ==
    pc = "returned" =>
        /\ Len(results) = Len(SelectSeq(validations, registered))
        /\ \A i \in DOMAIN results :
              /\ results[i].validation_name = SelectSeq(validations, registered)[i].name
              /\ results[i].strategy_applied = SelectSeq(validations, registered)[i].strategy

C19_Witness ==
    /\ pc = "returned"
    /\ Len(validations) = 2
    /\ Len(results) = 2
    /\ validations[1].strategy = "fix"
    /\ validations[2].strategy = "ignore"
    /\ results[1].status = "fixed"
    /\ results[1].strategy_applied = "fix"
    /\ results[2].strategy_applied = "ignore"

\* C20: no exception escapes validate_and_fix: a failure of the check, the
\* backup, the mutation, the sanity check or the restore ends in a returned
\* record, never in a raise.
C20_NoExceptionEscapes == pc # "raised"

\* C21: when _run_fix or _run_ignore returns after the backup was taken,
\* either the mutation succeeded and passed the sanity check or the file
\* equals the backup, however the mutation step ended.
C21_VerifiedOrRolledBack ==
    (/\ last.op \in {"_run_fix", "_run_ignore"}
     /\ last.backed_up = "returned"
     /\ ~last.raised) =>
        \/ (last.result.success /\ last.sanity = "passed")
        \/ file = backup

\* C22: each file has its own backup slot: once backup_file has returned for
\* a file, the backup path of that file holds the text that file had before
\* its first repair of the day, whatever was done to the other file.
C22_OwnBackupSlot ==
    \A path \in DOMAIN file :
        firstPre[path] # NoFile =>
            /\ backup[relative_path(path)] # NoFile
            /\ backup[relative_path(path)] = firstPre[path]

listed(lines, n) == \E k \in DOMAIN lines : lines[k] = n

\* C23: run on the same content, the two checks flag no line in common:
\* check_malformed_quotes flags a line only if some field of it has a nonzero
\* even residual quote count and no field of it an odd one.
C23_ClassesExclusive ==
    last.op = "_run_check" =>
        \A n \in DOMAIN split(last.pre, NL) :
            /\ ~(listed(results[1].affected_lines, n) /\ listed(results[2].affected_lines, n))
            /\ listed(results[2].affected_lines, n) =>
                  /\ \E k \in DOMAIN split(split(last.pre, NL)[n], SEP) :
                        /\ unescaped_count(split(split(last.pre, NL)[n], SEP)[k]) > 0
                        /\ unescaped_count(split(split(last.pre, NL)[n], SEP)[k]) % 2 = 0
                  /\ \A k \in DOMAIN split(split(last.pre, NL)[n], SEP) :
                        unescaped_count(split(split(last.pre, NL)[n], SEP)[k]) % 2 = 0

\* C24: two workers running the backup and the fix on two different files
\* below the raw-data root never fail, in any interleaving, and when both are
\* done each file's backup holds the text that file had before its fix.
C24_WorkersComplete ==
    /\ \A w \in Workers : pc[w] # "failed"
    /\ (\A w \in Workers : pc[w] = "done") =>
          \A w \in Workers :
              /\ backup.files[relative_path(validations[w])] # NoFile
              /\ backup.files[relative_path(validations[w])] = firstPre[validations[w]]

C24_Witness ==
    /\ \A w \in Workers : pc[w] = "done"
    /\ DayDir \in backup.dirs
    /\ parent(relative_path(validations[1])) = parent(relative_path(validations[2]))
    /\ \A w \in Workers :
          /\ backup.files[relative_path(validations[w])] = firstPre[validations[w]]
          /\ file[validations[w]] # firstPre[validations[w]]

\* the text the mutation of the last repair call wrote
mutated ==
    IF last.op = "_run_ignore"
    THEN _ignore_affected_lines(last.pre, last.affected, TRUE).file
    ELSE fix_method(last.pre, last.validation_name, TRUE).file

\* C25: a repair is rolled back for its line count only when it left less
\* than half of the lines the file had immediately before that repair, also
\* when another repair of the file ran earlier the same day.
C25_SanityAgainstPreRepair ==
    (/\ last.op \in {"_run_fix", "_run_ignore"}
     /\ ~last.raised
     /\ last.sanity = "failed"
     /\ last.result.details[2] = "Too many lines removed") =>
        2 * raw_lines(mutated) < raw_lines(last.pre)

\* the audit trail of a successful fix method: the lines its check flags
RepairTrail ==
    /\ (last.op = "_fix_redundant_quotes" /\ last.result.success) =>
          /\ last.result.lines_removed = _check_redundant_quotes(last.pre, TRUE).affected_lines
          /\ last.result.lines_fixed = Len(last.result.lines_removed)
    /\ (last.op = "_fix_malformed_quotes" /\ last.result.success) =>
          /\ last.result.lines_removed = _check_malformed_quotes(last.pre, TRUE).affected_lines
          /\ last.result.lines_fixed = Len(last.result.lines_removed)

\* the numbers of affected that are data lines of text, in order
data_lines_of(text, affected) ==
    SelectSeq(affected,
              LAMBDA n : /\ n # 1
                         /\ n <= raw_lines(text)
                         /\ ~blank(split(text, NL)[n]))

RECURSIVE unescaped_removed(_, _)

\* f from position i on, without its unescaped quotes
unescaped_removed(f, i) ==
    IF i > Len(f) THEN <<>>
    ELSE (IF unescaped_at(f, i) THEN <<>> ELSE <<f[i]>>) \o unescaped_removed(f, i + 1)

\* the number of unescaped quotes of f is odd
odd_residual(f) == Cardinality({i \in DOMAIN f : unescaped_at(f, i)}) % 2 = 1

\* C27: _fix_redundant_quotes leaves the header and the blank lines as they
\* are; in every other line each field with an odd number of unescaped quotes
\* becomes the field without its unescaped quotes, its escaped pairs kept, so
\* that it changes and holds no unescaped quote, and each field with an even
\* number of them, zero or not, is unchanged; check_redundant_quotes on the
\* result reports passed.
C27_RedundantFixExact ==
    (last.op = "_fix_redundant_quotes" /\ last.result.success) =>
        LET a == split(last.pre, NL)
            b == split(file, NL)
        IN /\ Len(b) = Len(a)
           /\ \A n \in DOMAIN a :
                 IF n = 1 \/ blank(a[n])
                 THEN b[n] = a[n]
                 ELSE /\ Len(split(b[n], SEP)) = Len(split(a[n], SEP))
                      /\ \A k \in DOMAIN split(a[n], SEP) :
                            LET f == split(a[n], SEP)[k]
                                g == split(b[n], SEP)[k]
                            IN IF odd_residual(f)
                               THEN /\ g = unescaped_removed(f, 1)
                                    /\ g # f
                                    /\ only_pairs(g)
                                    /\ count(g, QUOTE) =
                                           count(f, QUOTE)
                                             - Cardinality({i \in DOMAIN f : unescaped_at(f, i)})
                               ELSE g = f
           /\ _check_redundant_quotes(file, TRUE).status = "passed"

C27_Witness ==
    /\ last.op = "_fix_redundant_quotes"
    /\ last.result.success
    /\ odd_residual(split(last.pre, NL)[1])
    /\ \E n \in DOMAIN split(last.pre, NL) :
          /\ n # 1
          /\ \E k \in DOMAIN split(split(last.pre, NL)[n], SEP) :
                /\ odd_residual(split(split(last.pre, NL)[n], SEP)[k])
                /\ split(split(file, NL)[n], SEP)[k] # split(split(last.pre, NL)[n], SEP)[k]
                /\ only_pairs(split(split(file, NL)[n], SEP)[k])
    /\ \E n \in DOMAIN split(last.pre, NL) :
          /\ n # 1
          /\ \E k \in DOMAIN split(split(last.pre, NL)[n], SEP) :
                /\ ~only_pairs(split(split(last.pre, NL)[n], SEP)[k])
                /\ ~odd_residual(split(split(last.pre, NL)[n], SEP)[k])
    /\ file # last.pre

\* C28: when validate_and_fix has returned, the check of every record with
\* status fixed, run again on the file as it is now, reports no affected line.
C28_FixedRecordsRecheckClean ==
    pc = "returned" =>
        \A i \in DOMAIN results :
            results[i].status = "fixed" =>
                _run_check(file, results[i].validation_name, TRUE).affected_lines = <<>>

\* C29: the two repairs commute: the file written by one of them, repaired by
\* the other, is the text the two repairs give in the other order.
C29_RepairsCommute ==
    /\ (last.op = "_fix_redundant_quotes" /\ last.result.success) =>
          _fix_malformed_quotes(file, TRUE).file =
              _fix_redundant_quotes(_fix_malformed_quotes(last.pre, TRUE).file, TRUE).file
    /\ (last.op = "_fix_malformed_quotes" /\ last.result.success) =>
          _fix_redundant_quotes(file, TRUE).file =
              _fix_malformed_quotes(_fix_redundant_quotes(last.pre, TRUE).file, TRUE).file

C29_Witness ==
    /\ last.op = "_fix_malformed_quotes"
    /\ last.result.success
    /\ file # last.pre
    /\ _fix_redundant_quotes(file, TRUE).file # file
    /\ _fix_redundant_quotes(last.pre, TRUE).file # last.pre
    /\ _fix_redundant_quotes(file, TRUE).file =
          _fix_malformed_quotes(_fix_redundant_quotes(last.pre, TRUE).file, TRUE).file

\* C30: the report saved by after_pipeline_run holds only results of
\* validations run during the pipeline run it ends, whatever the pipeline
\* names of the runs and whether raw-data validation is enabled.
C30_ReportOfThisRunOnly ==
    last.op = "after_pipeline_run" =>
        \A i \in DOMAIN last.rows : last.rows[i].run = last.run

====
